---- MODULE Spec2Model ----
(***************************************************************************)
(* Razorpay proxy: the credential gate, the signature verifier, the five   *)
(* relay handlers and the legacy alias routes, as one state machine.       *)
(*                                                                         *)
(* Three builds of the server are in the repository:                       *)
(*   "server"  src/server.js                  /api routes plus aliases     *)
(*   "logged"  src/unnamed/part_000:1-308     the same, with gate logging  *)
(*                                            and the capture error map    *)
(*   "legacy"  src/unnamed/part_000:309-524   legacy routes only, the      *)
(*                                            capture-enforcing build      *)
(* A run picks one build in Init and keeps it.                             *)
(*                                                                         *)
(* Three specifications:                                                   *)
(*   Spec            one request at a time, every input of the model       *)
(*   ConcurrentSpec  two requests in flight, one input per handler path    *)
(*   LogSpec         the startup and gate log lines, for proxy secrets of  *)
(*                   several lengths                                       *)
(*                                                                         *)
(* JavaScript strings are TLA+ strings (sequences of characters), so URL   *)
(* building, percent-decoding and form-encoding are computed character by  *)
(* character.  Other JavaScript values are tagged records.                 *)
(***************************************************************************)
EXTENDS Integers, Sequences, FiniteSets, TLC

VARIABLES
  variant,    \* the build that is running
  pc,         \* per slot: where the request is in its handling
  req,        \* per slot: the inbound request as the client sent it
  url,        \* per slot: req.url, which the alias routes rewrite
  dispatches, \* per slot: how often the router has been entered for it
  route,      \* per slot: the route that matched last
  params,     \* per slot: req.params.orderId of that match
  gate,       \* per slot: the results of authenticateApiKey, in order
  outbound,   \* per slot: the calls issued to the provider, in order
  reply,      \* per slot: what the provider answered
  responses,  \* per slot: the responses sent to the client, in order
  env,        \* process.env.API_KEY of the running process
  log         \* the console lines written at startup and by the gate

vars == <<variant, pc, req, url, dispatches, route, params, gate, outbound, reply, responses, env, log>>

---------------------------------------------------------------------------
(* Bounds of the model *)

\* Longest :orderId path segment, counted in tokens of IdTokens.
MaxIdLen == 2

\* Longest configured proxy secret of the logging specification.
MaxSecretLen == 10

\* Request slots of the event loop.  The sequential specification Spec
\* serves one request at a time, in slot 1; ConcurrentSpec uses both.
Slots == {1, 2}

---------------------------------------------------------------------------
(* JavaScript values *)

undefined == [t |-> "undefined"]
null == [t |-> "null"]
Str(s) == [t |-> "string", s |-> s]
Num(n) == [t |-> "number", n |-> n]
Bool(b) == [t |-> "boolean", b |-> b]
Arr(a) == [t |-> "array", a |-> a]
Obj(o) == [t |-> "object", o |-> o]

\* ToBoolean: what `if (x)`, `!x` and `x || y` test.
Truthy(x) ==
  CASE x.t = "undefined" -> FALSE
    [] x.t = "null" -> FALSE
    [] x.t = "string" -> x.s # ""
    [] x.t = "number" -> x.n # 0
    [] x.t = "boolean" -> x.b
    [] OTHER -> TRUE

\* a || b
Or(a, b) == IF Truthy(a) THEN a ELSE b

\* Array.prototype.join(',') over an array of strings.
RECURSIVE Join(_)
Join(a) ==
  IF Len(a) = 0 THEN ""
  ELSE IF Len(a) = 1 THEN a[1]
  ELSE a[1] \o "," \o Join(Tail(a))

\* ToString: what string concatenation, template literals and
\* URLSearchParams.append apply to a value.
ToStr(x) ==
  CASE x.t = "undefined" -> "undefined"
    [] x.t = "null" -> "null"
    [] x.t = "string" -> x.s
    [] x.t = "number" -> ToString(x.n)
    [] x.t = "boolean" -> (IF x.b THEN "true" ELSE "false")
    [] x.t = "array" -> Join(x.a)
    [] OTHER -> "[object Object]"

\* obj?.field : undefined unless obj is an object that has the field.
Get(x, f) ==
  IF x.t = "object" /\ f \in DOMAIN x.o THEN x.o[f] ELSE undefined

\* obj.field : a TypeError on undefined and null.
Throws(x) == x.t \in {"undefined", "null"}

---------------------------------------------------------------------------
(* Strings: percent-decoding and form-encoding *)

Char(s, i) == SubSeq(s, i, i)

IndexOf(s, c) ==
  IF \E i \in 1..Len(s) : Char(s, i) = c
  THEN CHOOSE i \in 1..Len(s) : Char(s, i) = c /\ \A j \in 1..(i - 1) : Char(s, j) # c
  ELSE 0

StartsWith(s, p) == Len(s) >= Len(p) /\ SubSeq(s, 1, Len(p)) = p

EndsWith(s, p) == Len(s) >= Len(p) /\ SubSeq(s, Len(s) - Len(p) + 1, Len(s)) = p

HexDigits == {"0", "1", "2", "3", "4", "5", "6", "7", "8", "9",
              "A", "B", "C", "D", "E", "F"}

\* The ASCII escapes that the characters of the model can spell.
AsciiOf(h) ==
  CASE h = "22" -> "\""
    [] h = "23" -> "#"
    [] h = "25" -> "%"
    [] h = "2C" -> ","
    [] h = "2F" -> "/"
    [] h = "32" -> "2"
    [] h = "33" -> "3"
    [] h = "35" -> "5"
    [] h = "3F" -> "?"
    [] h = "52" -> "R"
    [] h = "53" -> "S"
    [] h = "55" -> "U"
    [] h = "5F" -> "_"
    [] OTHER -> ""

\* decodeURIComponent: [ok, s]; ok = FALSE is a URIError (a "%" that does
\* not start an escape, or an escape that is no complete UTF-8 sequence).
RECURSIVE decodeURIComponent(_)
decodeURIComponent(s) ==
  IF s = "" THEN [ok |-> TRUE, s |-> ""]
  ELSE IF Head(s) # "%"
    THEN LET r == decodeURIComponent(Tail(s))
         IN [ok |-> r.ok, s |-> Head(s) \o r.s]
  ELSE IF Len(s) < 3 \/ Char(s, 2) \notin HexDigits \/ Char(s, 3) \notin HexDigits
    THEN [ok |-> FALSE, s |-> ""]
  ELSE IF AsciiOf(SubSeq(s, 2, 3)) = ""
    THEN [ok |-> FALSE, s |-> ""]
  ELSE LET r == decodeURIComponent(SubSeq(s, 4, Len(s)))
       IN [ok |-> r.ok, s |-> AsciiOf(SubSeq(s, 2, 3)) \o r.s]

Unreserved == {"0", "1", "2", "3", "4", "5", "6", "7", "8", "9",
               "a", "b", "c", "d", "e", "f", "x", "_", "-", ".", "*"}

\* The application/x-www-form-urlencoded byte serializer of one character.
FormEncodeChar(c) ==
  CASE c \in Unreserved -> c
    [] c = " " -> "+"
    [] c = "," -> "%2C"
    [] c = "%" -> "%25"
    [] c = "/" -> "%2F"
    [] c = "?" -> "%3F"
    [] OTHER -> c

RECURSIVE FormEncode(_)
FormEncode(s) ==
  IF s = "" THEN "" ELSE FormEncodeChar(Head(s)) \o FormEncode(Tail(s))

---------------------------------------------------------------------------
(* Configuration: process.env, read once at start *)

API_KEY == "proxy-secret-key"
RAZORPAY_KEY_ID == "rzp_test_id"
RAZORPAY_KEY_SECRET == "rzp_test_secret"
RAZORPAY_API == "https://api.razorpay.com/v1"

Variants == {"server", "logged", "legacy"}

\* crypto.createHmac('sha256', key).update(text).digest('hex'), as a
\* collision-free symbolic digest: equal exactly when key and text are equal.
createHmac(key, text) == "hmac-sha256<" \o key \o "," \o text \o ">"

auth == [username |-> RAZORPAY_KEY_ID, password |-> RAZORPAY_KEY_SECRET]

---------------------------------------------------------------------------
(* Inbound requests *)

NoBody ==
  [amount |-> undefined, currency |-> undefined, receipt |-> undefined,
   notes |-> undefined, payment_capture |-> undefined,
   payment_id |-> undefined, order_id |-> undefined, signature |-> undefined]

NoQuery == [from |-> undefined, to |-> undefined, count |-> undefined, skip |-> undefined]

\* Date.now() as read while the request is handled.
Times == {1700000000, 1700000001}

ApiKeys == {undefined, Str(""), Str("wrong-key"), Str(API_KEY)}

Request(m, u, k, b, q, n) ==
  [method |-> m, url |-> u, apiKey |-> k, body |-> b, query |-> q, now |-> n]

NoRequest == Request("", "", undefined, NoBody, NoQuery, 0)

CreateBodies ==
  {[NoBody EXCEPT !.amount = a, !.currency = c, !.receipt = r, !.notes = n,
                  !.payment_capture = p] :
     a \in {undefined, Num(0), Num(50000)},
     c \in {undefined, Str(""), Str("USD")},
     r \in {undefined, Str("receipt_123")},
     n \in {undefined, Obj([shop |-> Str("1")])},
     p \in {undefined, Num(0), Num(2)}}

PaymentIds == {undefined, Str("undefined"), Str("pay_123")}
OrderIds == {undefined, Str("order_123")}

\* order_id + '|' + payment_id
SignedText(order_id, payment_id) == ToStr(order_id) \o "|" \o ToStr(payment_id)

Signatures ==
  {undefined, Str("")}
    \cup {Str(createHmac(k, SignedText(o, p))) :
           k \in {RAZORPAY_KEY_SECRET, "other-secret"}, o \in OrderIds, p \in PaymentIds}

VerifyBodies ==
  {[NoBody EXCEPT !.payment_id = p, !.order_id = o, !.signature = g] :
     p \in PaymentIds, o \in OrderIds, g \in Signatures}

CaptureBodies ==
  {[NoBody EXCEPT !.payment_id = p, !.amount = a] :
     p \in {undefined, Str(""), Str("pay_123")},
     a \in {undefined, Num(0), Num(50000)}}

\* req.query as the query parser leaves it: a filter sent once is a string
\* (possibly empty), a filter sent twice is an array of strings.
Queries ==
  {[from |-> f, to |-> t, count |-> c, skip |-> k] :
     f \in {undefined, Str(""), Str("1"), Arr(<<"1", "2">>)},
     t \in {undefined, Str("2")},
     c \in {undefined, Str(""), Str("0")},
     k \in {undefined, Str("5")}}

\* Raw (percent-encoded) :orderId segments a client sends: no literal "/"
\* or "?", which would end the segment.
IdTokens == {"x", "2F", "%2F", "%3F", "%25", "%"}

RECURSIVE IdsOfLen(_)
IdsOfLen(n) ==
  IF n = 0 THEN {""}
  ELSE {w \o c : w \in IdsOfLen(n - 1), c \in IdTokens}

RawIds == UNION {IdsOfLen(n) : n \in 1..MaxIdLen}

\* The paths each build serves.
CreatePaths(v) == IF v = "legacy" THEN {"/create-order"} ELSE {"/create-order", "/api/orders"}
OrdersPaths(v) == IF v = "legacy" THEN {"/orders"} ELSE {"/orders", "/api/orders"}
VerifyPaths(v) == IF v = "legacy" THEN {"/verify-payment"} ELSE {"/verify-payment", "/api/payments/verify"}
CapturePaths(v) == IF v = "legacy" THEN {"/capture-payment"} ELSE {"/capture-payment", "/api/payments/capture"}
InfoPaths(v) == IF v = "legacy" THEN {"/health"} ELSE {"/health", "/api"}

Requests(v) ==
  {Request("POST", u, k, b, NoQuery, n) :
     u \in CreatePaths(v), k \in ApiKeys, b \in CreateBodies, n \in Times}
  \cup {Request("GET", u \o "/" \o id, k, NoBody, NoQuery, 0) :
     u \in OrdersPaths(v), k \in ApiKeys, id \in RawIds}
  \cup {Request("GET", u, k, NoBody, q, 0) :
     u \in OrdersPaths(v), k \in ApiKeys, q \in Queries}
  \cup {Request("POST", u, k, b, NoQuery, 0) :
     u \in VerifyPaths(v), k \in ApiKeys, b \in VerifyBodies}
  \cup {Request("POST", u, k, b, NoQuery, 0) :
     u \in CapturePaths(v), k \in ApiKeys, b \in CaptureBodies}
  \cup {Request("GET", u, k, NoBody, NoQuery, 0) :
     u \in InfoPaths(v), k \in ApiKeys}

---------------------------------------------------------------------------
(* The router: app.get / app.post registrations and app._router.handle *)

\* A registration that puts authenticateApiKey in front of every route.
LayerGated(m, p, isParam, gated, op, target) ==
  [method |-> m, path |-> p, param |-> isParam, gated |-> TRUE, op |-> op,
   target |-> target]

Layer(m, p, isParam, gated, op, target) ==
  [method |-> m, path |-> p, param |-> isParam, gated |-> gated, op |-> op,
   target |-> target]

\* The routes in registration order.  op "alias" is a legacy route that
\* retargets req.url to `target`; a param route's path is the text before
\* its :orderId segment.
Routes(v) ==
  IF v = "legacy"
  THEN << Layer("POST", "/create-order", FALSE, TRUE, "createOrder", ""),
          Layer("GET", "/orders/", TRUE, TRUE, "getOrder", ""),
          Layer("GET", "/orders", FALSE, TRUE, "listOrders", ""),
          Layer("POST", "/verify-payment", FALSE, TRUE, "verifyPayment", ""),
          Layer("POST", "/capture-payment", FALSE, TRUE, "capturePayment", ""),
          Layer("GET", "/health", FALSE, FALSE, "health", "") >>
  ELSE << Layer("POST", "/api/orders", FALSE, TRUE, "createOrder", ""),
          Layer("POST", "/create-order", FALSE, TRUE, "alias", "/api/orders"),
          Layer("GET", "/api/orders/", TRUE, TRUE, "getOrder", ""),
          Layer("GET", "/orders/", TRUE, TRUE, "alias", "/api/orders/"),
          Layer("GET", "/api/orders", FALSE, TRUE, "listOrders", ""),
          Layer("GET", "/orders", FALSE, TRUE, "alias", "/api/orders"),
          Layer("POST", "/api/payments/verify", FALSE, TRUE, "verifyPayment", ""),
          Layer("POST", "/verify-payment", FALSE, TRUE, "alias", "/api/payments/verify"),
          Layer("POST", "/api/payments/capture", FALSE, TRUE, "capturePayment", ""),
          Layer("POST", "/capture-payment", FALSE, TRUE, "alias", "/api/payments/capture"),
          Layer("GET", "/health", FALSE, FALSE, "health", ""),
          Layer("GET", "/api", FALSE, FALSE, "info", "") >>

\* parseurl(req).pathname: the text before the first "?".
Pathname(u) ==
  IF IndexOf(u, "?") = 0 THEN u ELSE SubSeq(u, 1, IndexOf(u, "?") - 1)

\* The :orderId segment a param route captures from `path`, "" when the
\* route does not match: one non-empty segment without "/", an optional
\* trailing "/" after it (routing is not strict).
Segment(prefix, path) ==
  IF ~StartsWith(path, prefix) THEN ""
  ELSE LET rest == SubSeq(path, Len(prefix) + 1, Len(path))
           seg == IF EndsWith(rest, "/") THEN SubSeq(rest, 1, Len(rest) - 1) ELSE rest
       IN IF IndexOf(seg, "/") = 0 THEN seg ELSE ""

\* Layer.match on the path.
MatchLayer(layer, path) ==
  IF layer.param
  THEN Segment(layer.path, path) # ""
  ELSE path = layer.path \/ path = layer.path \o "/"

\* The first layer of the stack that serves the method and matches the
\* path; its params are percent-decoded, and a URIError there ends the
\* dispatch with an error.
Match(v, method, path) ==
  LET stack == Routes(v)
      hits == {i \in 1..Len(stack) :
                 stack[i].method = method /\ MatchLayer(stack[i], path)}
  IN IF hits = {} THEN [kind |-> "none", layer |-> 0, orderId |-> ""]
     ELSE LET i == CHOOSE i \in hits : \A j \in hits : i <= j
              d == IF stack[i].param
                   THEN decodeURIComponent(Segment(stack[i].path, path))
                   ELSE [ok |-> TRUE, s |-> ""]
          IN IF d.ok THEN [kind |-> "match", layer |-> i, orderId |-> d.s]
             ELSE [kind |-> "error", layer |-> i, orderId |-> ""]

---------------------------------------------------------------------------
(* Responses and outbound calls *)

Response(status, body) == [status |-> status, body |-> body]

\* res.json(body): status 200 unless res.status(n) was called.
Json(body) == Response(200, body)

Call(method, u, data) == [method |-> method, url |-> u, data |-> data, auth |-> auth]

---------------------------------------------------------------------------
(* authenticateApiKey *)

\* A gate that only tests that a key was sent.
DeniedOnlyWhenMissing(apiKey) == ~Truthy(apiKey)

\* !apiKey || apiKey !== process.env.API_KEY
Denied(apiKey) == ~Truthy(apiKey) \/ apiKey # Str(API_KEY)

Unauthorized == Response(401, Obj([error |-> Str("Unauthorized")]))

\* String.prototype.substring(start, end) for 0 <= start <= end.
substring(s, start, end) ==
  SubSeq(s, start + 1, IF end > Len(s) THEN Len(s) ELSE end)

\* key.substring(0, 8) + '...'
Redacted(key) == substring(key, 0, 8) \o "..."

\* The lines the logged build writes when the process starts; the other
\* builds write nothing about their configuration.
StartupLog(v, key) ==
  IF v = "logged"
  THEN {"[INFO] Environment variables validated successfully",
        "[INFO] ALLOWED_ORIGINS: *",
        "[INFO] API_KEY: " \o Redacted(key)}
  ELSE {}

\* The lines authenticateApiKey of the logged build writes for one request.
GateLog(v, apiKey, key) ==
  IF v = "logged"
  THEN {"[AUTH] Received API key: "
          \o (IF Truthy(apiKey) THEN Redacted(apiKey.s) ELSE "undefined"),
        "[AUTH] Expected API key: " \o Redacted(key),
        IF ~Truthy(apiKey) \/ apiKey # Str(key)
        THEN "[AUTH] Authentication failed: API key mismatch or missing"
        ELSE "[AUTH] Authentication successful"}
  ELSE {}

---------------------------------------------------------------------------
(* The handlers, up to their upstream call *)

EmptyObject == Obj([f \in {} |-> undefined])

\* A body that lets the caller's payment_capture and currency through.
requestBodyAsSent(v, body, now) ==
  Obj([amount |-> body.amount,
       currency |-> IF body.currency = undefined THEN Str("INR") ELSE body.currency,
       receipt |-> Or(body.receipt, Str("receipt_" \o ToString(now))),
       payment_capture |-> Or(body.payment_capture, Num(1)),
       notes |-> Or(body.notes, EmptyObject)])

\* Create order: the body sent to the provider.  The legacy build forces
\* payment_capture to 1; the other builds send no such field.
requestBody(v, body, now) ==
  IF v = "legacy"
  THEN Obj([amount |-> body.amount,
            currency |-> Or(body.currency, Str("INR")),
            receipt |-> Or(body.receipt, Str("receipt_" \o ToString(now))),
            payment_capture |-> Num(1),
            notes |-> Or(body.notes, EmptyObject)])
  ELSE Obj([amount |-> body.amount,
            currency |-> Or(body.currency, Str("INR")),
            receipt |-> Or(body.receipt, Str("receipt_" \o ToString(now))),
            notes |-> Or(body.notes, EmptyObject)])

createOrderCall(v, r) ==
  Call("POST", RAZORPAY_API \o "/orders", requestBody(v, r.body, r.now))

getOrderCall(orderId) ==
  Call("GET", RAZORPAY_API \o "/orders/" \o orderId, undefined)

FilterNames == <<"from", "to", "count", "skip">>

\* List orders: the name/value pairs appended to queryParams, in order.
RECURSIVE queryParams(_, _)
queryParams(query, names) ==
  IF names = <<>> THEN <<>>
  ELSE (IF Truthy(query[Head(names)])
        THEN << <<Head(names), ToStr(query[Head(names)])>> >>
        ELSE <<>>) \o queryParams(query, Tail(names))

\* URLSearchParams.prototype.toString
RECURSIVE SearchParamsToString(_)
SearchParamsToString(pairs) ==
  IF pairs = <<>> THEN ""
  ELSE pairs[1][1] \o "=" \o FormEncode(pairs[1][2])
       \o (IF Len(pairs) > 1 THEN "&" \o SearchParamsToString(Tail(pairs)) ELSE "")

queryString(query) ==
  LET text == SearchParamsToString(queryParams(query, FilterNames))
  IN IF text # "" THEN "?" \o text ELSE ""

listOrdersCall(query) ==
  Call("GET", RAZORPAY_API \o "/orders" \o queryString(query), undefined)

\* Verify payment: the hex HMAC of order_id + '|' + payment_id.
generatedSignature(body) ==
  createHmac(RAZORPAY_KEY_SECRET, SignedText(body.order_id, body.payment_id))

\* A comparison that lets a request without signature through.
SignatureMismatchWhenSent(body) ==
  Truthy(body.signature) /\ Str(generatedSignature(body)) # body.signature

\* generatedSignature !== signature
SignatureMismatch(body) == Str(generatedSignature(body)) # body.signature

InvalidSignature ==
  Json(Obj([verified |-> Bool(FALSE), error |-> Str("Invalid signature")]))

verifyPaymentCall(body) ==
  Call("GET", RAZORPAY_API \o "/payments/" \o ToStr(body.payment_id), undefined)

\* A check that only refuses an empty payment_id.
MissingPaymentIdWhenEmpty(body) == body.payment_id = Str("")

\* !payment_id
MissingPaymentId(body) == ~Truthy(body.payment_id)

PaymentIdRequired == Response(400, Obj([error |-> Str("payment_id is required")]))

\* Capture payment: the body sent to the provider.
captureBody(body) ==
  IF Truthy(body.amount) THEN Obj([amount |-> body.amount]) ELSE EmptyObject

capturePaymentCall(body) ==
  Call("POST", RAZORPAY_API \o "/payments/" \o ToStr(body.payment_id) \o "/capture",
       captureBody(body))

Health == Json(Obj([status |-> Str("ok")]))

Info ==
  Json(Obj([name |-> Str("Razorpay Proxy API"),
            version |-> Str("1.0.0"),
            endpoints |-> Obj([orders |-> Str("/api/orders"),
                               verifyPayment |-> Str("/api/payments/verify"),
                               capturePayment |-> Str("/api/payments/capture"),
                               health |-> Str("/health")])]))

---------------------------------------------------------------------------
(* The provider's answers *)

\* response.data of a 2xx answer: a resource, or a JSON null.
Datas ==
  {Obj([id |-> Str("res_1"), status |-> Str("captured"), count |-> Num(1)]), null}

ErrorDatas ==
  {Obj([error |-> Obj([code |-> Str("BAD_REQUEST_ERROR"),
                       description |-> Str("The id provided does not exist")])]),
   Obj([error |-> Obj([code |-> Str("BAD_REQUEST_ERROR"), description |-> Str("")])]),
   Obj([error |-> Obj([code |-> Str("SERVER_ERROR")])]),
   Str("Bad Gateway"),
   Str("")}

\* What axios rejects with: an error that carries the provider's response
\* (a non-2xx status), or a transport error without one.
Errors ==
  {Obj([response |-> Obj([status |-> Num(st), data |-> d]),
        message |-> Str("Request failed with status code " \o ToString(st))]) :
     st \in {400, 502}, d \in ErrorDatas}
  \cup {Obj([message |-> Str("connect ECONNREFUSED")])}

TypeError(field) ==
  Obj([message |-> Str("Cannot read properties of null (reading '" \o field \o "')")])

Resolved(data) == [ok |-> TRUE, data |-> data, error |-> undefined]
Rejected(error) == [ok |-> FALSE, data |-> undefined, error |-> error]
NoReply == [ok |-> FALSE, data |-> undefined, error |-> undefined]

---------------------------------------------------------------------------
(* The handlers, after their upstream call *)

\* A status that ignores what the provider reported.
errorStatusGeneric(error) == Num(500).n

\* error.response?.status || 500
errorStatus(error) == Or(Get(Get(error, "response"), "status"), Num(500)).n

\* The catch block of the relay handlers:
\* res.status(...).json({ error: error.response?.data || error.message })
catchResponse(error) ==
  Response(errorStatus(error),
           Obj([error |-> Or(Get(Get(error, "response"), "data"), Get(error, "message"))]))

\* The catch block of verify payment.
verifyCatchResponse(error) ==
  Response(errorStatus(error),
           Obj([verified |-> Bool(FALSE),
                error |-> Or(Get(Get(error, "response"), "data"), Get(error, "message"))]))

\* The inner catch block of capture payment in the logged build.
errorDetail(razorpayError) ==
  LET data == Get(Get(razorpayError, "response"), "data")
  IN Or(Or(Or(Get(Get(data, "error"), "description"), Get(data, "error")),
           Get(razorpayError, "message")),
        Str("Unknown error occurred during payment capture"))

\* A mapping that drops the provider's code.
razorpayErrorResponseNoCode(razorpayError) ==
  Response(errorStatus(razorpayError), Obj([error |-> errorDetail(razorpayError)]))

razorpayErrorResponse(razorpayError) ==
  Response(errorStatus(razorpayError),
           Obj([error |-> errorDetail(razorpayError),
                code |-> Get(Get(Get(Get(razorpayError, "response"), "data"), "error"), "code")]))

\* The rest of a relay handler once the call has resolved: it logs a field
\* of response.data (a TypeError when the data is null, caught by the
\* handler's catch block) and answers with the data.
relayResolved(logged, data) ==
  IF logged # "" /\ Throws(data) THEN catchResponse(TypeError(logged)) ELSE Json(data)

captureCatch(v, error) ==
  IF v = "logged" THEN razorpayErrorResponse(error) ELSE catchResponse(error)

\* An answer that reports the caller's payment_id as the status.
verifyResolvedNoStatus(data) ==
  IF Throws(data) THEN verifyCatchResponse(TypeError("status"))
  ELSE Json(Obj([verified |-> Bool(TRUE), status |-> Get(data, "id"), payment |-> data]))

verifyResolved(data) ==
  IF Throws(data) THEN verifyCatchResponse(TypeError("status"))
  ELSE Json(Obj([verified |-> Bool(TRUE), status |-> Get(data, "status"), payment |-> data]))

\* The response a handler sends when its upstream call settles.
Settle(v, op, r) ==
  CASE op = "createOrder" ->
         IF r.ok THEN relayResolved("id", r.data) ELSE catchResponse(r.error)
    [] op = "getOrder" ->
         IF r.ok THEN relayResolved("", r.data) ELSE catchResponse(r.error)
    [] op = "listOrders" ->
         IF r.ok THEN relayResolved("count", r.data) ELSE catchResponse(r.error)
    [] op = "verifyPayment" ->
         IF r.ok THEN verifyResolved(r.data) ELSE verifyCatchResponse(r.error)
    [] op = "capturePayment" ->
         IF r.ok
         THEN IF Throws(r.data) THEN captureCatch(v, TypeError("status")) ELSE Json(r.data)
         ELSE captureCatch(v, r.error)

---------------------------------------------------------------------------
(* State machine *)

Init ==
  /\ variant \in Variants
  /\ pc = [s \in Slots |-> "idle"]
  /\ req = [s \in Slots |-> NoRequest]
  /\ url = [s \in Slots |-> ""]
  /\ dispatches = [s \in Slots |-> 0]
  /\ route = [s \in Slots |-> 0]
  /\ params = [s \in Slots |-> ""]
  /\ gate = [s \in Slots |-> <<>>]
  /\ outbound = [s \in Slots |-> <<>>]
  /\ reply = [s \in Slots |-> NoReply]
  /\ responses = [s \in Slots |-> <<>>]
  /\ env = API_KEY
  /\ log = StartupLog(variant, env)

\* The layer that matched last, and what it does.
layer(s) == Routes(variant)[route[s]]
op(s) == IF route[s] = 0 THEN "" ELSE layer(s).op

\* A request arrives on a free slot.
Receive(s, r) ==
  /\ pc[s] = "idle"
  /\ req' = [req EXCEPT ![s] = r]
  /\ url' = [url EXCEPT ![s] = r.url]
  /\ pc' = [pc EXCEPT ![s] = "route"]
  /\ UNCHANGED <<variant, env, log, dispatches, route, params, gate, outbound, reply, responses>>

\* What ends a dispatch that found no handler: the application's final
\* handler answers when express called the router; app._router.handle(req,
\* res) of an alias route passes no callback, so there the router's call of
\* it throws outside any handler and the request is never answered.
Unhandled(s, status, text) ==
  IF dispatches[s] = 0
  THEN /\ responses' = [responses EXCEPT ![s] = Append(@, Response(status, Str(text)))]
       /\ pc' = [pc EXCEPT ![s] = "done"]
  ELSE /\ pc' = [pc EXCEPT ![s] = "crashed"]
       /\ UNCHANGED responses

\* app._router.handle: find the route for req.method and req.url.
Router(s) ==
  /\ pc[s] = "route"
  /\ dispatches' = [dispatches EXCEPT ![s] = @ + 1]
  /\ LET m == Match(variant, req[s].method, Pathname(url[s]))
     IN CASE m.kind = "match" ->
               /\ route' = [route EXCEPT ![s] = m.layer]
               /\ params' = [params EXCEPT ![s] = m.orderId]
               /\ pc' = [pc EXCEPT ![s] =
                           IF Routes(variant)[m.layer].gated THEN "auth" ELSE "handler"]
               /\ UNCHANGED responses
          [] m.kind = "none" ->
               /\ Unhandled(s, 404, "Not Found")
               /\ UNCHANGED <<route, params>>
          [] m.kind = "error" ->
               /\ Unhandled(s, 400, "Bad Request")
               /\ UNCHANGED <<route, params>>
  /\ UNCHANGED <<variant, env, log, req, url, gate, outbound, reply>>

\* Send a response and end the handler.
Respond(s, response) ==
  /\ responses' = [responses EXCEPT ![s] = Append(@, response)]
  /\ pc' = [pc EXCEPT ![s] = "done"]

\* A handler that issues its call a second time.
AwaitRetried(s, call) ==
  /\ outbound' = [outbound EXCEPT ![s] = @ \o <<call, call>>]
  /\ pc' = [pc EXCEPT ![s] = "awaiting"]

\* Issue the upstream call and suspend on it.
Await(s, call) ==
  /\ outbound' = [outbound EXCEPT ![s] = Append(@, call)]
  /\ pc' = [pc EXCEPT ![s] = "awaiting"]

authenticateApiKey(s) ==
  /\ pc[s] = "auth"
  /\ IF Denied(req[s].apiKey)
     THEN /\ gate' = [gate EXCEPT ![s] = Append(@, "DENY")]
          /\ Respond(s, Unauthorized)
     ELSE /\ gate' = [gate EXCEPT ![s] = Append(@, "ALLOW")]
          /\ pc' = [pc EXCEPT ![s] = "handler"]
          /\ UNCHANGED responses
  /\ log' = log \cup GateLog(variant, req[s].apiKey, env)
  /\ UNCHANGED <<variant, env, req, url, dispatches, route, params, outbound, reply>>

\* A legacy route of the /api builds: retarget req.url and dispatch again.
Alias(s) ==
  /\ pc[s] = "handler" /\ op(s) = "alias"
  /\ url' = [url EXCEPT ![s] = layer(s).target \o params[s]]
  /\ pc' = [pc EXCEPT ![s] = "route"]
  /\ UNCHANGED <<variant, env, log, req, dispatches, route, params, gate, outbound, reply, responses>>

CreateOrder(s) ==
  /\ pc[s] = "handler" /\ op(s) = "createOrder"
  /\ Await(s, createOrderCall(variant, req[s]))
  /\ UNCHANGED <<variant, env, log, req, url, dispatches, route, params, gate, reply, responses>>

GetOrder(s) ==
  /\ pc[s] = "handler" /\ op(s) = "getOrder"
  /\ Await(s, getOrderCall(params[s]))
  /\ UNCHANGED <<variant, env, log, req, url, dispatches, route, params, gate, reply, responses>>

ListOrders(s) ==
  /\ pc[s] = "handler" /\ op(s) = "listOrders"
  /\ Await(s, listOrdersCall(req[s].query))
  /\ UNCHANGED <<variant, env, log, req, url, dispatches, route, params, gate, reply, responses>>

VerifyPayment(s) ==
  /\ pc[s] = "handler" /\ op(s) = "verifyPayment"
  /\ IF SignatureMismatch(req[s].body)
     THEN Respond(s, InvalidSignature) /\ UNCHANGED outbound
     ELSE Await(s, verifyPaymentCall(req[s].body)) /\ UNCHANGED responses
  /\ UNCHANGED <<variant, env, log, req, url, dispatches, route, params, gate, reply>>

CapturePayment(s) ==
  /\ pc[s] = "handler" /\ op(s) = "capturePayment"
  /\ IF MissingPaymentId(req[s].body)
     THEN Respond(s, PaymentIdRequired) /\ UNCHANGED outbound
     ELSE Await(s, capturePaymentCall(req[s].body)) /\ UNCHANGED responses
  /\ UNCHANGED <<variant, env, log, req, url, dispatches, route, params, gate, reply>>

HealthCheck(s) ==
  /\ pc[s] = "handler" /\ op(s) = "health"
  /\ Respond(s, Health)
  /\ UNCHANGED <<variant, env, log, req, url, dispatches, route, params, gate, outbound, reply>>

ApiInfo(s) ==
  /\ pc[s] = "handler" /\ op(s) = "info"
  /\ Respond(s, Info)
  /\ UNCHANGED <<variant, env, log, req, url, dispatches, route, params, gate, outbound, reply>>

\* A handler that builds its answer from a reply kept in a variable that
\* all requests share (here: the reply that slot 1 got).
SettledShared(s, r) ==
  /\ pc[s] = "awaiting"
  /\ reply' = [reply EXCEPT ![s] = r]
  /\ Respond(s, Settle(variant, op(s), IF reply[1] # NoReply THEN reply[1] ELSE r))
  /\ UNCHANGED <<variant, env, log, req, url, dispatches, route, params, gate, outbound>>

\* The upstream call settles and the handler runs to its end.
Settled(s, r) ==
  /\ pc[s] = "awaiting"
  /\ reply' = [reply EXCEPT ![s] = r]
  /\ Respond(s, Settle(variant, op(s), r))
  /\ UNCHANGED <<variant, env, log, req, url, dispatches, route, params, gate, outbound>>

AxiosResolve(s) == \E data \in Datas : Settled(s, Resolved(data))

AxiosReject(s) == \E error \in Errors : Settled(s, Rejected(error))

\* The exchange is over (after a crash: the process is started again).
Close(s) ==
  /\ pc[s] \in {"done", "crashed"}
  /\ pc' = [pc EXCEPT ![s] = "idle"]
  /\ req' = [req EXCEPT ![s] = NoRequest]
  /\ url' = [url EXCEPT ![s] = ""]
  /\ dispatches' = [dispatches EXCEPT ![s] = 0]
  /\ route' = [route EXCEPT ![s] = 0]
  /\ params' = [params EXCEPT ![s] = ""]
  /\ gate' = [gate EXCEPT ![s] = <<>>]
  /\ outbound' = [outbound EXCEPT ![s] = <<>>]
  /\ reply' = [reply EXCEPT ![s] = NoReply]
  /\ responses' = [responses EXCEPT ![s] = <<>>]
  /\ UNCHANGED <<variant, env, log>>

Arrive(s) == pc[s] = "idle" /\ \E r \in Requests(variant) : Receive(s, r)

Next ==
  \/ Arrive(1)
  \/ Router(1)
  \/ authenticateApiKey(1)
  \/ Alias(1)
  \/ CreateOrder(1)
  \/ GetOrder(1)
  \/ ListOrders(1)
  \/ VerifyPayment(1)
  \/ CapturePayment(1)
  \/ HealthCheck(1)
  \/ ApiInfo(1)
  \/ AxiosResolve(1)
  \/ AxiosReject(1)
  \/ Close(1)

Spec == Init /\ [][Next]_vars

---------------------------------------------------------------------------
(* Concurrent specification: two requests in flight, their handler steps *)
(* and the arrival of their upstream replies interleaved in every order  *)

\* The requests of the concurrent specification: one per handler path, on
\* the legacy routes, which every build serves (the /api builds by
\* re-dispatch).
ConcurrentRequests ==
  LET key == Str(API_KEY)
      signed == [NoBody EXCEPT !.payment_id = Str("pay_123"), !.order_id = Str("order_123"),
                               !.signature = Str(createHmac(RAZORPAY_KEY_SECRET,
                                                            "order_123|pay_123"))]
  IN {Request("POST", "/create-order", key, [NoBody EXCEPT !.amount = Num(50000)], NoQuery, 1700000000),
      Request("POST", "/verify-payment", key, signed, NoQuery, 0),
      Request("POST", "/create-order", Str("wrong-key"), NoBody, NoQuery, 1700000000),
      Request("POST", "/capture-payment", key, [NoBody EXCEPT !.amount = Num(50000)], NoQuery, 0),
      Request("GET", "/orders", key, NoBody, [NoQuery EXCEPT !.count = Str("0")], 0),
      Request("GET", "/orders/x", key, NoBody, NoQuery, 0),
      Request("GET", "/orders/%25", key, NoBody, NoQuery, 0),
      Request("GET", "/health", undefined, NoBody, NoQuery, 0),
      Request("GET", "/api", undefined, NoBody, NoQuery, 0)}

Accept(s) == pc[s] = "idle" /\ \E r \in ConcurrentRequests : Receive(s, r)

\* The exception of an unanswerable re-dispatch is thrown outside every
\* handler; a runtime that ends the process on it takes the requests in
\* flight with it, a runtime that only reports it does not.
ProcessExit ==
  /\ \E s \in Slots : pc[s] = "crashed"
  /\ \E s \in Slots : pc[s] \in {"route", "auth", "handler", "awaiting"}
  /\ pc' = [s \in Slots |->
              IF pc[s] \in {"route", "auth", "handler", "awaiting"} THEN "crashed" ELSE pc[s]]
  /\ UNCHANGED <<variant, env, log, req, url, dispatches, route, params, gate,
                 outbound, reply, responses>>

ConcurrentNext ==
  \/ \E s \in Slots :
       \/ Accept(s)
       \/ Router(s)
       \/ authenticateApiKey(s)
       \/ Alias(s)
       \/ CreateOrder(s)
       \/ GetOrder(s)
       \/ ListOrders(s)
       \/ VerifyPayment(s)
       \/ CapturePayment(s)
       \/ HealthCheck(s)
       \/ ApiInfo(s)
       \/ AxiosResolve(s)
       \/ AxiosReject(s)
       \/ Close(s)
  \/ ProcessExit

ConcurrentSpec == Init /\ [][ConcurrentNext]_vars

---------------------------------------------------------------------------
(* Logging specification: the process is started with a proxy secret of *)
(* any length and the gate sees keys that do and do not match it        *)

\* The values of API_KEY the process may be started with: secrets of the
\* five lengths up to MaxSecretLen, shorter and longer than the 8
\* characters that the log shows.
Secrets ==
  {SubSeq(word, 1, n) :
     word \in {API_KEY, "0123456789abcdef"}, n \in (MaxSecretLen - 4)..MaxSecretLen}

\* The X-API-Key headers sent to a process whose secret is `key`.
InboundKeys(key) ==
  {undefined, Str(""), Str(key), Str(key \o "x"), Str("wrong-key")}

LogInit ==
  /\ variant \in Variants
  /\ env \in Secrets
  /\ log = StartupLog(variant, env)
  /\ pc = [s \in Slots |-> "idle"]
  /\ req = [s \in Slots |-> NoRequest]
  /\ url = [s \in Slots |-> ""]
  /\ dispatches = [s \in Slots |-> 0]
  /\ route = [s \in Slots |-> 0]
  /\ params = [s \in Slots |-> ""]
  /\ gate = [s \in Slots |-> <<>>]
  /\ outbound = [s \in Slots |-> <<>>]
  /\ reply = [s \in Slots |-> NoReply]
  /\ responses = [s \in Slots |-> <<>>]

\* authenticateApiKey runs for a request with header apiKey: what it logs.
GateAttempt(apiKey) ==
  /\ log' = log \cup GateLog(variant, apiKey, env)
  /\ UNCHANGED <<variant, env, pc, req, url, dispatches, route, params, gate,
                 outbound, reply, responses>>

LogNext == \E apiKey \in InboundKeys(env) : GateAttempt(apiKey)

LogSpec == LogInit /\ [][LogNext]_vars

---------------------------------------------------------------------------
(* What the claims speak of: the request as the client sent it *)

\* The X-API-Key header equals the configured proxy secret.
KeyMatches(s) == req[s].apiKey = Str(API_KEY)

InboundPath(s) == Pathname(req[s].url)

IsCreateOrder(s) ==
  req[s].method = "POST" /\ InboundPath(s) \in {"/api/orders", "/create-order"}
IsGetOrder(s) ==
  req[s].method = "GET"
    /\ (StartsWith(InboundPath(s), "/api/orders/") \/ StartsWith(InboundPath(s), "/orders/"))
IsListOrders(s) ==
  req[s].method = "GET" /\ InboundPath(s) \in {"/api/orders", "/orders"}
IsVerifyPayment(s) ==
  req[s].method = "POST" /\ InboundPath(s) \in {"/api/payments/verify", "/verify-payment"}
IsCapturePayment(s) ==
  req[s].method = "POST" /\ InboundPath(s) \in {"/api/payments/capture", "/capture-payment"}

IsOperation(s) ==
  IsCreateOrder(s) \/ IsGetOrder(s) \/ IsListOrders(s) \/ IsVerifyPayment(s)
    \/ IsCapturePayment(s)

\* The request came in on a legacy route of a build that also has /api.
OnAliasRoute(s) == variant # "legacy" /\ ~StartsWith(req[s].url, "/api") /\ IsOperation(s)

\* The response the client got, once the exchange is over.
Answered(s) == pc[s] = "done"
TheResponse(s) == responses[s][1]

---------------------------------------------------------------------------
(* C1 *)

\* C1: a request to one of the five operations (canonical or alias route)
\* whose X-API-Key is missing or differs from the configured secret never
\* gets past the gate, never causes an outbound call, and is answered with
\* 401 {error: 'Unauthorized'}; and every outbound call was preceded by a
\* successful gate check on the same request.  (A path the router itself
\* rejects as undecodable is answered by the framework, before any route.)
C1_GateDeniesBeforeAnyCall ==
  \A s \in Slots :
    /\ (pc[s] # "idle" /\ IsOperation(s) /\ ~KeyMatches(s)) =>
          /\ outbound[s] = <<>>
          /\ pc[s] \notin {"handler", "awaiting", "crashed"}
          /\ \A i \in 1..Len(gate[s]) : gate[s][i] = "DENY"
          /\ (Answered(s) /\ route[s] # 0) =>
                responses[s] = <<Response(401, Obj([error |-> Str("Unauthorized")]))>>
    /\ outbound[s] # <<>> =>
          /\ KeyMatches(s)
          /\ gate[s] # <<>>
          /\ \A i \in 1..Len(gate[s]) : gate[s][i] = "ALLOW"

\* A wrong key on an alias route was answered with the 401.
C1_Witness ==
  \E s \in Slots :
    /\ Answered(s) /\ OnAliasRoute(s) /\ req[s].apiKey = Str("wrong-key")
    /\ TheResponse(s).status = 401 /\ outbound[s] = <<>>

---------------------------------------------------------------------------
(* C2 *)

\* A 4xx response.
ClientError(response) == response.status \in 400..499

\* C2: an authenticated create-order request without an amount fails
\* locally with a client-error response and causes no outbound call.
C2_MissingAmountRejectedLocally ==
  \A s \in Slots :
    (IsCreateOrder(s) /\ KeyMatches(s) /\ req[s].body.amount = undefined) =>
      /\ outbound[s] = <<>>
      /\ Answered(s) => ClientError(TheResponse(s))

---------------------------------------------------------------------------
(* C3, C4 *)

\* The hex HMAC-SHA256 of order_id + '|' + payment_id under the key secret.
ValidSignature(body) ==
  Str(createHmac(RAZORPAY_KEY_SECRET,
                 ToStr(body.order_id) \o "|" \o ToStr(body.payment_id)))

\* C3: an authenticated verify-payment request whose signature is not the
\* valid one (a missing signature included) is answered with status 200 and
\* exactly {verified: false, error: 'Invalid signature'} (no status field),
\* and causes no outbound call.
C3_SignatureMismatchAnswer ==
  \A s \in Slots :
    (IsVerifyPayment(s) /\ KeyMatches(s)
       /\ req[s].body.signature # ValidSignature(req[s].body)) =>
      /\ outbound[s] = <<>>
      /\ pc[s] # "awaiting"
      /\ Answered(s) =>
            /\ responses[s] =
                 <<Response(200, Obj([verified |-> Bool(FALSE),
                                      error |-> Str("Invalid signature")]))>>
            /\ "status" \notin DOMAIN TheResponse(s).body.o

\* A signature made with another secret, and a missing one, were refused.
C3_Witness ==
  /\ \E s \in Slots :
       /\ Answered(s) /\ IsVerifyPayment(s) /\ KeyMatches(s)
       /\ req[s].body.signature = undefined
       /\ TheResponse(s).body = Obj([verified |-> Bool(FALSE),
                                     error |-> Str("Invalid signature")])

\* The one call a verified request makes: the status lookup of payment_id.
StatusLookup(body) ==
  [method |-> "GET",
   url |-> "https://api.razorpay.com/v1/payments/" \o ToStr(body.payment_id),
   data |-> undefined,
   auth |-> [username |-> RAZORPAY_KEY_ID, password |-> RAZORPAY_KEY_SECRET]]

VerifiedRequest(s) ==
  /\ IsVerifyPayment(s) /\ KeyMatches(s)
  /\ req[s].body.signature = ValidSignature(req[s].body)

---------------------------------------------------------------------------
(* C5 *)

\* The canonical /api route of a legacy route, the rest of the URL kept.
CanonicalUrl(u) ==
  CASE u = "/create-order" -> "/api/orders"
    [] u = "/verify-payment" -> "/api/payments/verify"
    [] u = "/capture-payment" -> "/api/payments/capture"
    [] u = "/orders" -> "/api/orders"
    [] StartsWith(u, "/orders/") -> "/api" \o u
    [] OTHER -> u

\* What one dispatch of request r does up to its upstream call: the call
\* it issues (if any), the answer it gives without one, and the operation
\* that waits for the call.
Served(v, r) ==
  LET m == Match(v, r.method, Pathname(r.url))
      l == Routes(v)[m.layer]
      local(response) == [calls |-> <<>>, answer |-> <<response>>, op |-> ""]
      remote(call) == [calls |-> <<call>>, answer |-> <<>>, op |-> l.op]
  IN CASE m.kind = "none" -> local(Response(404, Str("Not Found")))
       [] m.kind = "error" -> local(Response(400, Str("Bad Request")))
       [] l.gated /\ Denied(r.apiKey) -> local(Unauthorized)
       [] l.op = "createOrder" -> remote(createOrderCall(v, r))
       [] l.op = "getOrder" -> remote(getOrderCall(m.orderId))
       [] l.op = "listOrders" -> remote(listOrdersCall(r.query))
       [] l.op = "verifyPayment" ->
            IF SignatureMismatch(r.body) THEN local(InvalidSignature)
            ELSE remote(verifyPaymentCall(r.body))
       [] l.op = "capturePayment" ->
            IF MissingPaymentId(r.body) THEN local(PaymentIdRequired)
            ELSE remote(capturePaymentCall(r.body))
       [] l.op = "health" -> local(Health)
       [] l.op = "info" -> local(Info)
       [] OTHER -> local(Response(0, undefined))

\* The request of slot s, had it been sent to the canonical route.
CanonicalRequest(s) == [req[s] EXCEPT !.url = CanonicalUrl(@)]

\* The exchange of slot s went as one dispatch of request r goes, given
\* the same upstream reply.
SameAs(s, v, r) ==
  LET c == Served(v, r)
  IN /\ pc[s] # "crashed"
     /\ pc[s] \in {"awaiting", "done"} => outbound[s] = c.calls
     /\ Answered(s) =>
          responses[s] = IF c.calls = <<>> THEN c.answer
                         ELSE <<Settle(v, c.op, reply[s])>>

\* A request sent to a route that handles it itself goes as Served says.
ServedDirectly ==
  \A s \in Slots :
    (pc[s] # "idle" /\ ~OnAliasRoute(s)) => SameAs(s, variant, req[s])

\* C5: a request on an alias route yields the same outbound call and the
\* same response as the same request on its canonical /api route, given
\* the same upstream reply.
C5_AliasSameAsCanonical ==
  \A s \in Slots :
    LET c == Served(variant, CanonicalRequest(s))
    IN (OnAliasRoute(s) /\ pc[s] \in {"awaiting", "done"}) =>
         /\ outbound[s] = c.calls
         /\ Answered(s) =>
              responses[s] = IF c.calls = <<>> THEN c.answer
                             ELSE <<Settle(variant, c.op, reply[s])>>

\* The same, for the four alias routes without a path parameter.
AliasSameWithoutParameter ==
  \A s \in Slots :
    (OnAliasRoute(s) /\ ~IsGetOrder(s)) => SameAs(s, variant, CanonicalRequest(s))

\* The same, for order ids that are plain text.
AliasSamePlainId ==
  \A s \in Slots :
    (OnAliasRoute(s) /\ IsGetOrder(s) /\ req[s].url \in {"/orders/x", "/orders/xx", "/orders/2F"})
       => SameAs(s, variant, CanonicalRequest(s))

---------------------------------------------------------------------------
(* C6 *)

\* The body of the one call an authenticated create-order request made.
CreateOrderSent(s) ==
  /\ IsCreateOrder(s) /\ KeyMatches(s) /\ req[s].body.amount # undefined
  /\ pc[s] \in {"awaiting", "done"}

SentBody(s) == outbound[s][1].data

\* C6 as claimed: the outbound body carries the caller's amount and the
\* caller's currency, 'INR' when the caller omits the currency; the
\* capture-enforcing build sends payment_capture = 1 whatever the caller sent.
C6_AsClaimed ==
  \A s \in Slots :
    CreateOrderSent(s) =>
      /\ Len(outbound[s]) = 1
      /\ Get(SentBody(s), "amount") = req[s].body.amount
      /\ Get(SentBody(s), "currency") =
            IF req[s].body.currency = undefined THEN Str("INR") ELSE req[s].body.currency
      /\ variant = "legacy" => Get(SentBody(s), "payment_capture") = Num(1)

\* C6 as amended: the currency sent is 'INR' also when the caller sends an
\* empty currency, and the caller's currency otherwise.
C6_OrderBodyDefaults ==
  \A s \in Slots :
    CreateOrderSent(s) =>
      /\ Len(outbound[s]) = 1
      /\ Get(SentBody(s), "amount") = req[s].body.amount
      /\ Get(SentBody(s), "currency") =
            IF req[s].body.currency \in {undefined, Str("")} THEN Str("INR")
            ELSE req[s].body.currency
      /\ variant = "legacy" => Get(SentBody(s), "payment_capture") = Num(1)

\* The capture-enforcing build sent payment_capture = 1 for a caller that
\* asked for 0, with the currency defaulted.
C6_Witness ==
  \E s \in Slots :
    /\ CreateOrderSent(s) /\ variant = "legacy"
    /\ req[s].body.payment_capture = Num(0) /\ req[s].body.currency = undefined
    /\ Get(SentBody(s), "payment_capture") = Num(1)
    /\ Get(SentBody(s), "currency") = Str("INR")

---------------------------------------------------------------------------
(* C7 *)

\* name=value for every value the caller sent under the name.
RECURSIVE Repeated(_, _)
Repeated(name, values) ==
  IF values = <<>> THEN ""
  ELSE name \o "=" \o FormEncode(Head(values))
       \o (IF Len(values) > 1 THEN "&" \o Repeated(name, Tail(values)) ELSE "")

Supplied(name, value) ==
  CASE value.t = "string" -> name \o "=" \o FormEncode(value.s)
    [] value.t = "array" -> Repeated(name, value.a)
    [] OTHER -> ""

\* The filters the caller supplied, each with the caller's value.
RECURSIVE SuppliedFilters(_, _)
SuppliedFilters(query, names) ==
  IF names = <<>> THEN ""
  ELSE LET first == Supplied(Head(names), query[Head(names)])
           rest == SuppliedFilters(query, Tail(names))
       IN IF query[Head(names)] = undefined THEN rest
          ELSE IF rest = "" THEN first
          ELSE first \o "&" \o rest

ListOrdersSent(s) ==
  IsListOrders(s) /\ KeyMatches(s) /\ pc[s] \in {"awaiting", "done"}

\* C7: the outbound URL of list orders carries exactly the filters the
\* caller supplied, each with the caller's value, and no query string at
\* all when the caller supplied none.
C7_FiltersForwardedAsSupplied ==
  \A s \in Slots :
    ListOrdersSent(s) =>
      /\ Len(outbound[s]) = 1
      /\ outbound[s][1].url =
            "https://api.razorpay.com/v1/orders"
              \o (IF req[s].query = NoQuery THEN ""
                  ELSE "?" \o SuppliedFilters(req[s].query, <<"from", "to", "count", "skip">>))

\* The same for requests whose filters are absent or non-empty strings.
FiltersForwardedWhenPlain ==
  \A s \in Slots :
    (ListOrdersSent(s)
       /\ \A n \in DOMAIN req[s].query :
            req[s].query[n] = undefined \/ (req[s].query[n].t = "string" /\ req[s].query[n].s # ""))
    => /\ Len(outbound[s]) = 1
       /\ outbound[s][1].url =
            "https://api.razorpay.com/v1/orders"
              \o (IF req[s].query = NoQuery THEN ""
                  ELSE "?" \o SuppliedFilters(req[s].query, <<"from", "to", "count", "skip">>))

---------------------------------------------------------------------------
(* C8, C9 *)

\* C8: an authenticated capture request without payment_id is answered
\* 400 {error: 'payment_id is required'} and causes no outbound call.
C8_MissingPaymentIdRejected ==
  \A s \in Slots :
    (IsCapturePayment(s) /\ KeyMatches(s) /\ req[s].body.payment_id = undefined) =>
      /\ outbound[s] = <<>>
      /\ pc[s] # "awaiting"
      /\ Answered(s) =>
            responses[s] = <<Response(400, Obj([error |-> Str("payment_id is required")]))>>

\* A capture request without payment_id, sent to the alias, got the 400.
C8_Witness ==
  \E s \in Slots :
    /\ IsCapturePayment(s) /\ KeyMatches(s) /\ OnAliasRoute(s)
    /\ req[s].body.payment_id = undefined /\ req[s].body.amount = Num(50000)
    /\ Answered(s) /\ TheResponse(s).status = 400

\* C9: the outbound capture body has an amount field exactly when the
\* caller supplied an amount (any integer), with the caller's value, and is
\* empty otherwise.
C9_AmountForwardedWhenSupplied ==
  \A s \in Slots :
    (IsCapturePayment(s) /\ KeyMatches(s) /\ req[s].body.payment_id # undefined
       /\ pc[s] \in {"awaiting", "done"} /\ outbound[s] # <<>>) =>
      SentBody(s) =
        IF req[s].body.amount = undefined THEN Obj([f \in {} |-> undefined])
        ELSE Obj([amount |-> req[s].body.amount])

---------------------------------------------------------------------------
(* C10 *)

IsRelay(s) == IsCreateOrder(s) \/ IsGetOrder(s) \/ IsListOrders(s) \/ IsCapturePayment(s)

\* The structured error of the provider's answer: undefined when the call
\* did not fail with one.
UpstreamError(s) ==
  IF reply[s].ok THEN undefined
  ELSE Get(Get(Get(reply[s].error, "response"), "data"), "error")

HasDescriptionAndCode(s) ==
  /\ Get(UpstreamError(s), "description") # undefined
  /\ Get(UpstreamError(s), "code") # undefined

\* The fields of a response body, by path.
FieldPaths ==
  LET names == {"error", "code", "description"}
  IN {<<a>> : a \in names}
       \cup {<<a, b>> : a \in names, b \in names}
       \cup {<<a, b, c>> : a \in names, b \in names, c \in names}

RECURSIVE At(_, _)
At(value, path) ==
  IF path = <<>> THEN value ELSE At(Get(value, Head(path)), Tail(path))

\* C10: when the upstream call of a relay operation fails with a
\* structured error that has a description and a code, the response
\* carries both, under two distinct fields.
C10_DescriptionAndCodeSurfaced ==
  \A s \in Slots :
    (IsRelay(s) /\ Answered(s) /\ outbound[s] # <<>> /\ HasDescriptionAndCode(s)) =>
      \E p \in FieldPaths, q \in FieldPaths :
        /\ p # q
        /\ At(TheResponse(s).body, p) = Get(UpstreamError(s), "description")
        /\ At(TheResponse(s).body, q) = Get(UpstreamError(s), "code")

\* The capture handler of the logged build surfaced description and code
\* as the two top-level fields error and code.
C10_Witness ==
  \E s \in Slots :
    /\ IsCapturePayment(s) /\ Answered(s) /\ variant = "logged"
    /\ HasDescriptionAndCode(s)
    /\ Get(TheResponse(s).body, "error") = Str("The id provided does not exist")
    /\ Get(TheResponse(s).body, "code") = Str("BAD_REQUEST_ERROR")
    /\ TheResponse(s).status = 400

---------------------------------------------------------------------------
(* C11 *)

\* The upstream call of slot s failed: axios rejected.
UpstreamFailed(s) ==
  IsOperation(s) /\ Answered(s) /\ outbound[s] # <<>> /\ ~reply[s].ok

\* The status code the provider reported with the failure, undefined when
\* the failure is a transport error.
ReportedStatus(s) == Get(Get(reply[s].error, "response"), "status")

\* C11: when the upstream call of an operation (the four relay operations
\* and the status lookup of verify payment) fails, the response status is
\* the status code the provider reported if it reported one, and 500 when
\* there is none.
C11_UpstreamStatusSurfaced ==
  \A s \in Slots :
    UpstreamFailed(s) =>
      /\ Len(responses[s]) = 1
      /\ TheResponse(s).status =
            IF ReportedStatus(s) = undefined THEN 500 ELSE ReportedStatus(s).n

\* The status lookup of verify payment failed with the provider's 502 and
\* the caller got the 502.
C11_Witness ==
  \E s \in Slots :
    /\ UpstreamFailed(s) /\ IsVerifyPayment(s)
    /\ ReportedStatus(s) = Num(502)
    /\ TheResponse(s).status = 502

\* A transport error on capture payment was answered with 500 by the build
\* with the capture error map.
TransportErrorIs500 ==
  \E s \in Slots :
    /\ UpstreamFailed(s) /\ IsCapturePayment(s) /\ variant = "logged"
    /\ ReportedStatus(s) = undefined
    /\ TheResponse(s).status = 500

---------------------------------------------------------------------------
(* C12, C13 *)

\* The request asks for the service descriptor of a build that has one.
IsApiInfo(s) ==
  variant # "legacy" /\ req[s].method = "GET" /\ InboundPath(s) = "/api"

IsHealth(s) == req[s].method = "GET" /\ InboundPath(s) = "/health"

\* C12: GET /api is behind the gate like every route but the health
\* probe: with a missing or incorrect X-API-Key it is answered with the
\* 401 {error: 'Unauthorized'} and not with the descriptor.
C12_DescriptorRequiresKey ==
  \A s \in Slots :
    (IsApiInfo(s) /\ ~KeyMatches(s) /\ Answered(s)) =>
      responses[s] = <<Response(401, Obj([error |-> Str("Unauthorized")]))>>

\* C13: GET /health is answered 200 {status: 'ok'} whatever the
\* X-API-Key header is (absent, wrong or correct); it never passes the
\* gate and never causes an outbound call.
C13_HealthUnauthenticated ==
  \A s \in Slots :
    IsHealth(s) =>
      /\ outbound[s] = <<>>
      /\ gate[s] = <<>>
      /\ pc[s] \in {"route", "handler", "done"}
      /\ Answered(s) => responses[s] = <<Response(200, Obj([status |-> Str("ok")]))>>

\* The health probe was answered for a caller with a wrong key.
C13_Witness ==
  \E s \in Slots :
    /\ IsHealth(s) /\ Answered(s) /\ req[s].apiKey = Str("wrong-key")
    /\ TheResponse(s) = Response(200, Obj([status |-> Str("ok")]))

\* The same for a caller without a key, in the legacy build.
HealthAnsweredWithoutKey ==
  \E s \in Slots :
    /\ IsHealth(s) /\ Answered(s) /\ req[s].apiKey = undefined /\ variant = "legacy"
    /\ TheResponse(s).status = 200

---------------------------------------------------------------------------
(* C14 *)

\* The provider's answer to slot s is a failure.
ReplyFailed(s) == reply[s] # NoReply /\ ~reply[s].ok

\* C14: a request causes at most one outbound call, on any route and any
\* path through its handler; a failed call is not issued again: the
\* request is answered with the failure at once.
C14_AtMostOneCallNoRetry ==
  \A s \in Slots :
    /\ Len(outbound[s]) <= 1
    /\ pc[s] = "awaiting" => Len(outbound[s]) = 1
    /\ ReplyFailed(s) =>
          /\ pc[s] = "done"
          /\ Len(outbound[s]) = 1
          /\ Len(responses[s]) = 1
          /\ TheResponse(s).status >= 400

\* A capture request on the alias route whose call failed was answered
\* after that one call.
C14_Witness ==
  \E s \in Slots :
    /\ OnAliasRoute(s) /\ IsCapturePayment(s) /\ ReplyFailed(s)
    /\ dispatches[s] = 2
    /\ Len(outbound[s]) = 1 /\ Answered(s)

---------------------------------------------------------------------------
(* C15 *)

\* The handling of the request of slot s has come to its end.
Ended(s) == pc[s] \in {"done", "crashed"}

\* C15: every request gets exactly one response: never a second one, and
\* the handling never ends without one, on any path (gate denial,
\* validation failure, signature mismatch, upstream success or failure,
\* local fault, alias re-dispatch).
C15_ExactlyOneResponse ==
  \A s \in Slots :
    /\ Len(responses[s]) <= 1
    /\ Ended(s) => Len(responses[s]) = 1

\* The same for every request but those on the alias /orders/:orderId.
OneResponseOffOrderAlias ==
  \A s \in Slots :
    ~(OnAliasRoute(s) /\ IsGetOrder(s)) =>
      /\ Len(responses[s]) <= 1
      /\ Ended(s) => Len(responses[s]) = 1

\* No request is answered twice.
NeverTwoResponses == \A s \in Slots : Len(responses[s]) <= 1

---------------------------------------------------------------------------
(* C16 *)

\* The handler of slot s hit a fault of its own after a successful upstream
\* call: the provider answered 2xx with a null body and the handler read a
\* field of it.
LocalFault(s) ==
  /\ Answered(s) /\ outbound[s] # <<>>
  /\ IsCreateOrder(s) \/ IsListOrders(s) \/ IsVerifyPayment(s) \/ IsCapturePayment(s)
  /\ reply[s].ok /\ reply[s].data = null

\* The text of an exception raised by the JavaScript runtime.
InternalMessage(value) ==
  value.t = "string" /\ StartsWith(value.s, "Cannot read properties of")

\* C16: a local fault that is not an upstream failure is answered with a
\* generic 500 whose body holds nothing of the internal error, its
\* message included, on every operation.
C16_LocalFaultNotLeaked ==
  \A s \in Slots :
    LocalFault(s) =>
      /\ TheResponse(s).status = 500
      /\ \A p \in FieldPaths : ~InternalMessage(At(TheResponse(s).body, p))

\* What holds instead: the answer is a 500 that carries the message.
LocalFaultAnswered500 ==
  \A s \in Slots :
    LocalFault(s) =>
      /\ TheResponse(s).status = 500
      /\ InternalMessage(Get(TheResponse(s).body, "error"))

---------------------------------------------------------------------------
(* C17 *)

\* `part` occurs in `text`.
Contains(text, part) ==
  \E i \in 1..(Len(text) - Len(part) + 1) : SubSeq(text, i, i + Len(part) - 1) = part

\* C17: whatever the configured proxy secret (of any length) and whatever
\* X-API-Key values arrive, no line logged at startup or by the gate
\* contains the complete secret.
C17_SecretNeverLoggedInFull ==
  \A line \in log : ~Contains(line, env)

\* The same for secrets of more than 8 characters.
LongSecretRedacted ==
  Len(env) > 8 => \A line \in log : ~Contains(line, env)

---------------------------------------------------------------------------
(* C18 *)

\* The request as the alias route of the /api builds hands it back to the
\* router: the canonical path, followed by the decoded order id.
Retargeted(v, r) ==
  LET m == Match(v, r.method, Pathname(r.url))
  IN IF m.kind = "match" /\ Routes(v)[m.layer].op = "alias" /\ r.apiKey = Str(API_KEY)
     THEN [r EXCEPT !.url = Routes(v)[m.layer].target \o m.orderId]
     ELSE r

\* What the request of slot s alone determines: the call it issues, the
\* answer it gets without one, and the handler that answers after the call.
Own(s) == Served(variant, Retargeted(variant, req[s]))

BothAnswered ==
  /\ IsCreateOrder(1) /\ IsCreateOrder(2) /\ Answered(1) /\ Answered(2)
  /\ reply[1].ok /\ ReplyFailed(2)
  /\ TheResponse(1).status = 200 /\ TheResponse(2).status = 502

====
